---------------------------- MODULE Spec2Model ----------------------------
(***************************************************************************)
(* Multi-view triangulation (gtsam/geometry/triangulation.h).              *)
(*                                                                         *)
(* Numbers are exact: poses, calibrations and measurements are integer,    *)
(* a Point3 is a rational triple kept as numerators over one positive      *)
(* denominator.  Singular values of the stacked DLT matrix A are handled   *)
(* through the Gram matrix G = A^T A, whose eigenvalues are the squared    *)
(* singular values of A.                                                   *)
(***************************************************************************)
EXTENDS Integers, Sequences, FiniteSets, TLC

(***************************************************************************)
(* Integer helpers                                                         *)
(***************************************************************************)
Abs(a) == IF a < 0 THEN -a ELSE a

Sign(a) == IF a > 0 THEN 1 ELSE IF a < 0 THEN -1 ELSE 0

RECURSIVE Gcd(_, _)
Gcd(a, b) == IF b = 0 THEN Abs(a) ELSE Gcd(b, a % Abs(b))

Gcd4(a, b, c, d) == Gcd(Gcd(a, b), Gcd(c, d))

RECURSIVE SumTo(_, _)
SumTo(f, n) == IF n = 0 THEN 0 ELSE f[n] + SumTo(f, n - 1)

(***************************************************************************)
(* Dense matrices: a matrix is a tuple of rows, a row a tuple of integers. *)
(***************************************************************************)
Dot3(a, b) == a[1] * b[1] + a[2] * b[2] + a[3] * b[3]

Dot4(a, b) == a[1] * b[1] + a[2] * b[2] + a[3] * b[3] + a[4] * b[4]

Transpose3(M) == [i \in 1..3 |-> [j \in 1..3 |-> M[j][i]]]

MatVec3(M, v) == [i \in 1..3 |-> Dot3(M[i], v)]

\* (3 x 3) * (3 x 4)
MatMul34(M, N) == [i \in 1..3 |-> [j \in 1..4 |->
                     M[i][1] * N[1][j] + M[i][2] * N[2][j] + M[i][3] * N[3][j]]]

Det2(a, b, c, d) == a * d - b * c

\* determinant of the 3 x 3 submatrix of M on rows r and columns c (3-tuples)
Minor3(M, r, c) ==
    M[r[1]][c[1]] * Det2(M[r[2]][c[2]], M[r[2]][c[3]], M[r[3]][c[2]], M[r[3]][c[3]])
  - M[r[1]][c[2]] * Det2(M[r[2]][c[1]], M[r[2]][c[3]], M[r[3]][c[1]], M[r[3]][c[3]])
  + M[r[1]][c[3]] * Det2(M[r[2]][c[1]], M[r[2]][c[2]], M[r[3]][c[1]], M[r[3]][c[2]])

\* the indices 1..4 without k, in order
Others(k) == CASE k = 1 -> <<2, 3, 4>>
               [] k = 2 -> <<1, 3, 4>>
               [] k = 3 -> <<1, 2, 4>>
               [] OTHER -> <<1, 2, 3>>

\* cofactor (i, j) of a 4 x 4 matrix
Cofactor4(M, i, j) ==
    (IF (i + j) % 2 = 0 THEN 1 ELSE -1) * Minor3(M, Others(i), Others(j))

Det4(M) == M[1][1] * Cofactor4(M, 1, 1) + M[1][2] * Cofactor4(M, 1, 2)
         + M[1][3] * Cofactor4(M, 1, 3) + M[1][4] * Cofactor4(M, 1, 4)

\* M - s * I for a 4 x 4 matrix
ShiftDiag4(M, s) == [i \in 1..4 |-> [j \in 1..4 |->
                       IF i = j THEN M[i][j] - s ELSE M[i][j]]]

(***************************************************************************)
(* Geometry.  Pose3 = [R, t] is the camera-to-world transform, Point2 a    *)
(* pair <<u, v>>, Point3 = [n, d] the rational point n / d with d > 0 and  *)
(* gcd(n, d) = 1, a calibration the five Cal3_S2 intrinsics.               *)
(***************************************************************************)
Point3(X, Y, Z, W) ==
    LET g == Gcd4(X, Y, Z, W)
        s == Sign(W) * g
    IN  [n |-> <<X \div s, Y \div s, Z \div s>>, d |-> W \div s]

\* Pose3::inverse: (R^T, -R^T t)
PoseInverse(pose) ==
    LET Rt == Transpose3(pose.R)
        v  == MatVec3(Rt, pose.t)
    IN  [R |-> Rt, t |-> <<-v[1], -v[2], -v[3]>>]

\* Pose3::matrix: the 4 x 4 matrix [R t; 0 0 0 1]
PoseMatrix(pose) ==
    [i \in 1..4 |-> [j \in 1..4 |->
        IF i <= 3 THEN (IF j <= 3 THEN pose.R[i][j] ELSE pose.t[i])
                  ELSE (IF j <= 3 THEN 0 ELSE 1)]]

\* block<3, 4>(0, 0)
Block34(M) == [i \in 1..3 |-> M[i]]

\* Pose3::transform_to: R^T (p - t), the point in the camera frame
transform_to(pose, p) ==
    LET q == MatVec3(Transpose3(pose.R),
                     <<p.n[1] - p.d * pose.t[1],
                       p.n[2] - p.d * pose.t[2],
                       p.n[3] - p.d * pose.t[3]>>)
    IN  Point3(q[1], q[2], q[3], p.d)

\* p + delta for an integer vector delta
Translate(p, delta) ==
    Point3(p.n[1] + delta[1] * p.d, p.n[2] + delta[2] * p.d,
           p.n[3] + delta[3] * p.d, p.d)

\* Point3::z() compared with 0: the sign of the z coordinate
ZSign(p) == Sign(p.n[3])

\* Cal3_S2::K
K(cal) == << <<cal.fx, cal.s, cal.u0>>, <<0, cal.fy, cal.v0>>, <<0, 0, 1>> >>

\* a projection matrix built from the pose's own matrix, not its inverse
CameraProjectionMatrixOfPose(cal, pose) ==
    MatMul34(K(cal), Block34(PoseMatrix(pose)))

\* CameraProjectionMatrix<CALIBRATION>(calibration)(pose)
CameraProjectionMatrix(cal, pose) ==
    MatMul34(K(cal), Block34(PoseMatrix(PoseInverse(pose))))

(***************************************************************************)
(* Rank tolerance.  A tolerance is mant * 10^exp with exp in {-9, 0}.      *)
(* Within the bounds of the model the Gram matrix is an integer matrix of  *)
(* trace below 10^4, so each of its nonzero eigenvalues exceeds 10^-12 and *)
(* each nonzero singular value of A exceeds 10^-6: against a tolerance of  *)
(* 10^-9 a singular value is below the tolerance exactly when it is 0.     *)
(***************************************************************************)
DefaultRankTol == [mant |-> 1, exp |-> -9]

RankTol(k) == [mant |-> k, exp |-> 0]

IsTiny(tol) == tol.exp < 0

\* tol1 <= tol2
TolLeq(tol1, tol2) ==
    \/ IsTiny(tol1)
    \/ ~IsTiny(tol2) /\ tol1.mant <= tol2.mant

(***************************************************************************)
(* Homogeneous DLT                                                         *)
(***************************************************************************)
\* the 2 x 4 block of one measurement: u * p3 - p1 ; v * p3 - p2
DLTBlock(P, z) ==
    << [j \in 1..4 |-> z[1] * P[3][j] - P[1][j]],
       [j \in 1..4 |-> z[2] * P[3][j] - P[2][j]] >>

\* the stacked 2m x 4 matrix A, m = number of projection matrices
StackA(Ps, zs) ==
    [r \in 1..(2 * Len(Ps)) |-> DLTBlock(Ps[(r + 1) \div 2], zs[(r + 1) \div 2])[2 - (r % 2)]]

\* G = A^T A
Gram(A) ==
    [j \in 1..4 |-> [k \in 1..4 |->
        SumTo([r \in 1..Len(A) |-> A[r][j] * A[r][k]], Len(A))]]

\* coefficients, highest first, of det(x I - M) for a symmetric 4 x 4 M
CharPoly(M) ==
    LET e1 == M[1][1] + M[2][2] + M[3][3] + M[4][4]
        P2(i, j) == M[i][i] * M[j][j] - M[i][j] * M[j][i]
        e2 == P2(1, 2) + P2(1, 3) + P2(1, 4) + P2(2, 3) + P2(2, 4) + P2(3, 4)
        e3 == Cofactor4(M, 1, 1) + Cofactor4(M, 2, 2)
            + Cofactor4(M, 3, 3) + Cofactor4(M, 4, 4)
    IN  <<1, -e1, e2, -e3, Det4(M)>>

\* sign changes of a coefficient sequence, zeros skipped: the number of
\* positive roots of a polynomial all of whose roots are real (Descartes)
RECURSIVE SignChanges(_, _)
SignChanges(c, last) ==
    IF c = <<>> THEN 0
    ELSE IF Head(c) = 0 THEN SignChanges(Tail(c), last)
    ELSE (IF last # 0 /\ Sign(Head(c)) # last THEN 1 ELSE 0)
         + SignChanges(Tail(c), Sign(Head(c)))

\* multiplicity of the root 0
RECURSIVE ZeroRoots(_)
ZeroRoots(c) ==
    IF c = <<>> \/ c[Len(c)] # 0 THEN 0
    ELSE 1 + ZeroRoots(SubSeq(c, 1, Len(c) - 1))

\* number of singular values of A that are >= tol, from G = A^T A
NumSingularAtLeast(G, tol) ==
    IF IsTiny(tol)
    THEN SignChanges(CharPoly(G), 0)
    ELSE LET c == CharPoly(ShiftDiag4(G, tol.mant * tol.mant))
         IN  SignChanges(c, 0) + ZeroRoots(c)

\* the right singular vector of sigma_3 = 0, up to scale and sign: a nonzero
\* row of the adjugate of G (adj G = (l0 l1 l2) v v^T when rank G = 3)
NullVector(G) ==
    LET j == CHOOSE k \in 1..4 :
                 /\ Cofactor4(G, k, k) # 0
                 /\ \A l \in (k + 1)..4 : Cofactor4(G, l, l) = 0
        r == [k \in 1..4 |-> Cofactor4(G, j, k)]
        g == Gcd4(r[1], r[2], r[3], r[4]) * Sign(r[j])
    IN  [k \in 1..4 |-> r[k] \div g]

\* the measurements determine one point exactly: sigma_3 = 0
Consistent(Ps, zs) == Det4(Gram(StackA(Ps, zs))) = 0

triangulateHomogeneousDLT(Ps, zs, rank_tol) ==
    IF Len(zs) < Len(Ps) THEN [kind |-> "OutOfRange"]
    ELSE LET G == Gram(StackA(Ps, zs))
         IN  IF NumSingularAtLeast(G, rank_tol) < 3
             THEN [kind |-> "Underconstrained"]
             ELSE [kind |-> "ok", v |-> NullVector(G)]

\* |W| below the floor rank_tol * ||(X, Y, Z)||
BelowFloor(v, tol) ==
    IF IsTiny(tol) THEN v[4] = 0
    ELSE v[4] * v[4] < tol.mant * tol.mant * (v[1] * v[1] + v[2] * v[2] + v[3] * v[3])

triangulateDLT(Ps, zs, rank_tol) ==
    LET h == triangulateHomogeneousDLT(Ps, zs, rank_tol)
    IN  IF h.kind # "ok" THEN h
        ELSE IF BelowFloor(h.v, rank_tol) THEN [kind |-> "Underconstrained"]
        ELSE [kind |-> "ok", point |-> Point3(h.v[1], h.v[2], h.v[3], h.v[4])]

(***************************************************************************)
(* Refinement problem: factor graph, initial values, optimizer             *)
(***************************************************************************)
\* Symbol('p', 0)
Symbol(c, j) == <<c, j>>

NoPoint == [n |-> <<0, 0, 0>>, d |-> 0]

\* no landmark key yet
NoKey == <<"", 0>>

\* a function-local static is not yet constructed, under construction by
\* the first thread to reach its declaration, or constructed
StaticStates == {"uninit", "constructing", "ready"}

\* a static whose initialization is not guarded: a thread that arrives while
\* another constructs it passes on
StaticEnterUnguarded(st) ==
    CASE st = "uninit" -> "construct"
      [] OTHER         -> "pass"

\* what a thread reaching the declaration of a function-local static does:
\* the first one constructs it, one arriving during the construction waits
\* for it to complete, any later one passes
StaticEnter(st) ==
    CASE st = "uninit"       -> "construct"
      [] st = "constructing" -> "wait"
      [] OTHER               -> "pass"

\* the shared pointer read from the static unit2
Unit2Value(st) == IF st = "ready" THEN "Unit(2)" ELSE "null"

\* TriangulationFactor(camera_i, measurements[i], unit2, landmarkKey)
TriangulationFactor(camera, measured, model, key) ==
    [type |-> "TriangulationFactor", camera |-> camera, measured |-> measured,
     noise |-> model, key |-> key]

\* PinholeCamera(pose, calibration)
PinholeCamera(pose, cal) == [pose |-> pose, cal |-> cal]

\* values.insert(landmarkKey, initialEstimate) on an empty Values
InitialValues(landmarkKey, initialEstimate) == landmarkKey :> initialEstimate

\* the factors pushed by one pass over the loop body of triangulationGraph
GraphPushBack(graph, camera, measured, model, landmarkKey) ==
    Append(graph, TriangulationFactor(camera, measured, model, landmarkKey))

(***************************************************************************)
(* optimize(graph, values, landmarkKey): the Levenberg-Marquardt run is an *)
(* external routine; lm is what it does in this execution: it fails, or it *)
(* moves every variable that a factor is attached to by lm.delta.          *)
(***************************************************************************)
optimize(graph, values, landmarkKey, lm) ==
    IF \E j \in 1..Len(graph) : graph[j].noise = "null"
    THEN [kind |-> "Segfault"]
    ELSE IF lm.kind = "fail" THEN [kind |-> "OptimizerFailure"]
    ELSE LET moved(k) == \E j \in 1..Len(graph) : graph[j].key = k
             result == [k \in DOMAIN values |->
                          IF moved(k) THEN Translate(values[k], lm.delta)
                          ELSE values[k]]
         IN  IF landmarkKey \in DOMAIN result
             THEN [kind |-> "ok", point |-> result[landmarkKey]]
             ELSE [kind |-> "KeyDoesNotExist"]

(***************************************************************************)
(* Bounds and input domains                                                *)
(***************************************************************************)
MaxCams == 2

I3 == << <<1, 0, 0>>, <<0, 1, 0>>, <<0, 0, 1>> >>

\* rotation by 180 degrees about the Y axis
RotY180 == << <<-1, 0, 0>>, <<0, 1, 0>>, <<0, 0, -1>> >>

PoseSet == { [R |-> I3, t |-> <<0, 0, 0>>],
             [R |-> I3, t |-> <<1, 0, 0>>],
             [R |-> RotY180, t |-> <<1, 0, 0>>] }

CalSet == { [fx |-> 1, fy |-> 1, s |-> 0, u0 |-> 0, v0 |-> 0],
            [fx |-> 2, fy |-> 2, s |-> 0, u0 |-> 0, v0 |-> 0] }

MeasSet == { <<0, 0>>, <<-1, 0>> }

RankTols == { DefaultRankTol, RankTol(1) }

LMSet == { [kind |-> "fail", delta |-> <<0, 0, 0>>],
           [kind |-> "ok", delta |-> <<0, 0, 0>>],
           [kind |-> "ok", delta |-> <<0, 0, -1>>] }

SeqsUpTo(S, n) == UNION {[1..k -> S] : k \in 0..n}

(***************************************************************************)
(* One call of triangulatePoint3, as a record s:                           *)
(*   in       the arguments (overload, poses and sharedCal or cameras,     *)
(*            measurements, rank_tol, optimize)                            *)
(*   lm       what the external optimizer does in this execution           *)
(*   entry    the public function the caller called                        *)
(*   pc       the place the call has reached                               *)
(*   key      landmarkKey of triangulationGraph                            *)
(*   Ps       projection_matrices                                          *)
(*   point    the local variable point                                     *)
(*   values, graph, i   the locals of triangulationGraph                   *)
(*   outcome  how the call ended                                           *)
(*   trace, dltPoint, checked, oob, constructed   history of the call      *)
(* Each step below maps the record to the record after the step.           *)
(***************************************************************************)
NumCameras(in) == IF in.overload = "poses" THEN Len(in.poses) ELSE Len(in.cameras)

\* the i-th pose the call holds
PoseAt(in, i) == IF in.overload = "poses" THEN in.poses[i] ELSE in.cameras[i].pose

\* only the first pose
PosesOfFirst(in) == [i \in 1..(IF NumCameras(in) > 0 THEN 1 ELSE 0) |-> PoseAt(in, i)]

PosesOf(in) == [i \in 1..NumCameras(in) |-> PoseAt(in, i)]

Finish(s, kind, pt) ==
    [s EXCEPT !.pc = "done", !.outcome = [kind |-> kind, point |-> pt]]

\* assert(poses.size() == measurements.size()): aborts in a build with
\* assertions, is no code at all under NDEBUG
AssertSizes(s, b) ==
    IF b.asserts /\ NumCameras(s.in) # Len(s.in.measurements)
    THEN Finish(s, "Abort", NoPoint)
    ELSE [s EXCEPT !.pc = "size"]

\* if (poses.size() < 2) throw TriangulationUnderconstrainedException
SizeCheck(s) ==
    IF NumCameras(s.in) < 2
    THEN Finish([s EXCEPT !.trace = Append(@, "size")], "Underconstrained", NoPoint)
    ELSE [s EXCEPT !.pc = "build", !.trace = Append(@, "size")]

\* the per-camera overload ignoring each camera's own calibration
ProjectionOfIdentityCal(in, k) ==
    IF in.overload = "poses"
    THEN CameraProjectionMatrix(in.sharedCal, in.poses[k])
    ELSE CameraProjectionMatrix([fx |-> 1, fy |-> 1, s |-> 0, u0 |-> 0, v0 |-> 0],
                                in.cameras[k].pose)

\* the matrix pushed for camera k: createP(pose), or
\* CameraProjectionMatrix(camera.calibration())(camera.pose())
ProjectionOf(in, k) ==
    IF in.overload = "poses"
    THEN CameraProjectionMatrix(in.sharedCal, in.poses[k])
    ELSE CameraProjectionMatrix(in.cameras[k].cal, in.cameras[k].pose)

\* BOOST_FOREACH(pose, poses) projection_matrices.push_back(createP(pose))
BuildProjections(s) ==
    [s EXCEPT !.Ps = [k \in 1..NumCameras(s.in) |-> ProjectionOf(s.in, k)],
              !.trace = @ \o [k \in 1..NumCameras(s.in) |-> "P"],
              !.pc = "dlt"]

\* the DLT called without the caller's rank_tol
TriangulateLinearlyDefaultTol(s) ==
    LET r == triangulateDLT(s.Ps, s.in.measurements, DefaultRankTol)
        t == [s EXCEPT !.trace = Append(@, "dlt")]
    IN  IF r.kind # "ok" THEN Finish(t, r.kind, NoPoint)
        ELSE [t EXCEPT !.point = r.point, !.dltPoint = r.point,
                       !.pc = IF s.in.optimize THEN "tg_values" ELSE "cheirality"]

\* Point3 point = triangulateDLT(...); if (optimize) ...
TriangulateLinearly(s) ==
    LET r == triangulateDLT(s.Ps, s.in.measurements, s.in.rank_tol)
        t == [s EXCEPT !.trace = Append(@, "dlt")]
    IN  IF r.kind # "ok" THEN Finish(t, r.kind, NoPoint)
        ELSE [t EXCEPT !.point = r.point, !.dltPoint = r.point,
                       !.pc = IF s.in.optimize THEN "tg_values" ELSE "cheirality"]

\* the landmarkKey triangulationGraph is called with: the caller's own, or
\* Symbol('p', 0) when triangulateNonlinear makes the call
KeyPassed(s) == IF s.entry = "triangulationGraph" THEN s.key ELSE Symbol("p", 0)

\* a graph that starts with a prior factor on the landmark
GraphValuesWithPrior(s) ==
    [s EXCEPT !.key = KeyPassed(s),
              !.values = InitialValues(KeyPassed(s), s.point),
              !.graph = <<[type |-> "PriorFactor", camera |-> NoPoint,
                           measured |-> s.point, noise |-> "prior_model",
                           key |-> KeyPassed(s)]>>,
              !.i = 0,
              !.trace = Append(@, "refine"),
              !.pc = "tg_unit2"]

\* triangulationGraph(..., landmarkKey, initialEstimate), the estimate held
\* in point: Values values; values.insert(landmarkKey, initialEstimate);
\* graph empty
GraphValues(s) ==
    [s EXCEPT !.key = KeyPassed(s),
              !.values = InitialValues(KeyPassed(s), s.point),
              !.graph = <<>>,
              !.i = 0,
              !.trace = Append(@, "refine"),
              !.pc = "tg_unit2"]

\* the declaration of a static at place pc, the next place being nxt;
\* gives the call and the static afterwards, or nothing while it waits
StaticDecl(s, st, nxt) ==
    CASE StaticEnter(st) = "construct" ->
             {<<[s EXCEPT !.pc = s.pc \o "_init",
                          !.constructed = @ \cup {s.pc}], "constructing">>}
      [] StaticEnter(st) = "pass" -> {<<[s EXCEPT !.pc = nxt], st>>}
      [] OTHER -> {}

\* the constructor of the static returns
StaticDone(s, nxt) == <<[s EXCEPT !.pc = nxt], "ready">>

\* the camera read by the loop body at index i (from 0); past the end of
\* the vector the read is undefined and may yield any camera
LoopCameras(in, i) ==
    IF i < NumCameras(in)
    THEN IF in.overload = "poses"
         THEN {PinholeCamera(in.poses[i + 1], in.sharedCal)}
         ELSE {in.cameras[i + 1]}
    ELSE IF in.overload = "poses"
         THEN {PinholeCamera(g, in.sharedCal) : g \in PoseSet}
         ELSE {PinholeCamera(g, c) : g \in PoseSet, c \in CalSet}

\* for (size_t i = 0; i < measurements.size(); i++) { ... push_back ... }
\* from index s.i on; a read past the end of the vector may also end the
\* process; then return std::make_pair(graph, values), to the caller of
\* triangulationGraph or to triangulateNonlinear
RECURSIVE GraphLoop(_, _)
GraphLoop(s, unit2) ==
    IF s.i >= Len(s.in.measurements)
    THEN {IF s.entry = "triangulationGraph"
          THEN Finish(s, "Graph", NoPoint)
          ELSE [s EXCEPT !.pc = "optimize"]}
    ELSE UNION {GraphLoop([s EXCEPT
                    !.graph = GraphPushBack(@, cam, s.in.measurements[s.i + 1],
                                            Unit2Value(unit2), s.key),
                    !.oob = @ \/ (s.i >= NumCameras(s.in)),
                    !.i = @ + 1], unit2)
                : cam \in LoopCameras(s.in, s.i)}
         \cup (IF s.i >= NumCameras(s.in)
               THEN {Finish([s EXCEPT !.oob = TRUE], "Segfault", NoPoint)}
               ELSE {})

\* a refinement that falls back to the linear estimate when the optimizer fails
RefineWithFallback(s) ==
    LET r == optimize(s.graph, s.values, Symbol("p", 0), s.lm)
        t == [s EXCEPT !.trace = Append(@, "optimize")]
    IN  IF r.kind # "ok"
        THEN (IF s.entry = "triangulateNonlinear"
              THEN Finish(t, "Point", s.point)
              ELSE [t EXCEPT !.pc = "cheirality"])
        ELSE IF s.entry = "triangulateNonlinear"
        THEN Finish([t EXCEPT !.point = r.point], "Point", r.point)
        ELSE [t EXCEPT !.point = r.point, !.pc = "cheirality"]

\* return optimize(graph, values, Symbol('p', 0)): the value returned by a
\* direct call of triangulateNonlinear, assigned to point in triangulatePoint3
Refine(s) ==
    LET r == optimize(s.graph, s.values, Symbol("p", 0), s.lm)
        t == [s EXCEPT !.trace = Append(@, "optimize")]
    IN  IF r.kind # "ok" THEN Finish(t, r.kind, NoPoint)
        ELSE IF s.entry = "triangulateNonlinear"
        THEN Finish([t EXCEPT !.point = r.point], "Point", r.point)
        ELSE [t EXCEPT !.point = r.point, !.pc = "cheirality"]

\* a check that lets a point at depth exactly 0 pass
RECURSIVE AnyBehindStrict(_, _)
AnyBehindStrict(poses, point) ==
    IF poses = <<>> THEN FALSE
    ELSE IF ZSign(transform_to(Head(poses), point)) < 0 THEN TRUE
    ELSE AnyBehindStrict(Tail(poses), point)

\* BOOST_FOREACH(pose, poses) if (pose.transform_to(point).z() <= 0) throw
RECURSIVE AnyBehind(_, _)
AnyBehind(poses, point) ==
    IF poses = <<>> THEN FALSE
    ELSE IF ZSign(transform_to(Head(poses), point)) <= 0 THEN TRUE
    ELSE AnyBehind(Tail(poses), point)

\* a check made on the linear estimate instead of the point returned
CheiralityCheckOnLinear(s, b) ==
    IF b.cheirality
    THEN LET t == [s EXCEPT !.trace = Append(@, "cheirality"), !.checked = s.dltPoint]
         IN  IF AnyBehind(PosesOf(s.in), s.dltPoint)
             THEN Finish(t, "Cheirality", NoPoint)
             ELSE Finish([t EXCEPT !.trace = Append(@, "return")], "Point", s.point)
    ELSE Finish([s EXCEPT !.trace = Append(@, "return")], "Point", s.point)

\* #ifdef GTSAM_THROW_CHEIRALITY_EXCEPTION ... #endif return point;
CheiralityCheck(s, b) ==
    IF b.cheirality
    THEN LET t == [s EXCEPT !.trace = Append(@, "cheirality"), !.checked = s.point]
         IN  IF AnyBehind(PosesOf(s.in), s.point)
             THEN Finish(t, "Cheirality", NoPoint)
             ELSE Finish([t EXCEPT !.trace = Append(@, "return")], "Point", s.point)
    ELSE Finish([s EXCEPT !.trace = Append(@, "return")], "Point", s.point)

(***************************************************************************)
(* A call run on its own: the successors of a call record s given the      *)
(* statics st = [unit2, prior_model] of its template instantiation and     *)
(* the build b, and the set of records it can end in.                      *)
(***************************************************************************)
Succ(s, st, b) ==
    CASE s.pc = "assert"     -> {<<AssertSizes(s, b), st>>}
      [] s.pc = "size"       -> {<<SizeCheck(s), st>>}
      [] s.pc = "build"      -> {<<BuildProjections(s), st>>}
      [] s.pc = "dlt"        -> {<<TriangulateLinearly(s), st>>}
      [] s.pc = "tg_values"  -> {<<GraphValues(s), st>>}
      [] s.pc = "tg_unit2"   ->
             {<<x[1], [st EXCEPT !.unit2 = x[2]]>> :
                  x \in StaticDecl(s, st.unit2, "tg_prior")}
      [] s.pc = "tg_unit2_init" ->
             {<<StaticDone(s, "tg_prior")[1], [st EXCEPT !.unit2 = "ready"]>>}
      [] s.pc = "tg_prior"   ->
             {<<x[1], [st EXCEPT !.prior_model = x[2]]>> :
                  x \in StaticDecl(s, st.prior_model, "tg_loop")}
      [] s.pc = "tg_prior_init" ->
             {<<StaticDone(s, "tg_loop")[1], [st EXCEPT !.prior_model = "ready"]>>}
      [] s.pc = "tg_loop"    -> {<<t, st>> : t \in GraphLoop(s, st.unit2)}
      [] s.pc = "optimize"   -> {<<Refine(s), st>>}
      [] s.pc = "cheirality" -> {<<CheiralityCheck(s, b), st>>}
      [] OTHER               -> {}

\* the pairs <<call, statics>> a call run on its own can end in
RECURSIVE RunAlone(_, _, _)
RunAlone(s, st, b) ==
    IF s.pc = "done" THEN {<<s, st>>}
    ELSE UNION {RunAlone(x[1], x[2], b) : x \in Succ(s, st, b)}

FreshStatics == [unit2 |-> "uninit", prior_model |-> "uninit"]

InitCall(in, lm) ==
    [pc |-> "assert", entry |-> "triangulatePoint3", key |-> NoKey,
     in |-> in, lm |-> lm, Ps |-> <<>>,
     point |-> NoPoint, dltPoint |-> NoPoint, checked |-> NoPoint,
     values |-> <<>>, graph |-> <<>>, i |-> 0, oob |-> FALSE,
     constructed |-> {},
     outcome |-> [kind |-> "none", point |-> NoPoint], trace |-> <<>>]

\* triangulatePoint3 as a function: the outcomes of a call run on its own
triangulatePoint3(in, lm, b) ==
    {x[1].outcome : x \in RunAlone(InitCall(in, lm), FreshStatics, b)}

(***************************************************************************)
(* The arguments within the bounds.  The measurements of a call that       *)
(* reaches the DLT are noise-free (sigma_3 = 0), so that the DLT solution  *)
(* is a rational point.                                                    *)
(***************************************************************************)
CameraSet == {PinholeCamera(g, c) : g \in PoseSet, c \in CalSet}

\* the cameras of the per-camera overload: calibrations differ between cameras
MixedCameras ==
    {cam \in CameraSet : (cam.cal.fx = 2) <=> (cam.pose.t[1] = 1 /\ cam.pose.R = I3)}

UnitCal == CHOOSE c \in CalSet : c.fx = 1

PoseArgs(tols) ==
    [overload : {"poses"}, poses : SeqsUpTo(PoseSet, MaxCams), sharedCal : CalSet,
     cameras : {<<>>}, measurements : SeqsUpTo(MeasSet, MaxCams + 1),
     rank_tol : tols, optimize : BOOLEAN]

CameraArgs(tols) ==
    [overload : {"cameras"}, poses : {<<>>}, sharedCal : {UnitCal},
     cameras : SeqsUpTo(MixedCameras, MaxCams),
     measurements : SeqsUpTo(MeasSet, MaxCams + 1),
     rank_tol : tols, optimize : BOOLEAN]

ProjectionMatrices(in) == [k \in 1..NumCameras(in) |-> ProjectionOf(in, k)]

\* calls that meet the precondition |cameras| = |measurements|
WellFormedArgs ==
    {in \in PoseArgs(RankTols) \cup CameraArgs(RankTols) :
        /\ Len(in.measurements) = NumCameras(in)
        /\ NumCameras(in) >= 2 => Consistent(ProjectionMatrices(in), in.measurements)}

\* calls with one measurement too few or too many, at the default tolerance
MismatchedArgs ==
    {in \in PoseArgs({DefaultRankTol}) \cup CameraArgs({DefaultRankTol}) :
        /\ Len(in.measurements) \in {NumCameras(in) - 1, NumCameras(in) + 1}
        /\ (NumCameras(in) >= 2 /\ Len(in.measurements) > NumCameras(in))
              => Consistent(ProjectionMatrices(in), in.measurements)}

Args == WellFormedArgs \cup MismatchedArgs

Builds == [asserts : BOOLEAN, cheirality : BOOLEAN]

Calls == {1, 2}

Overloads == {"poses", "cameras"}

IdleCall ==
    [InitCall([overload |-> "poses", poses |-> <<>>,
               sharedCal |-> CHOOSE c \in CalSet : c.fx = 1, cameras |-> <<>>,
               measurements |-> <<>>, rank_tol |-> DefaultRankTol,
               optimize |-> FALSE],
              CHOOSE l \in LMSet : l.kind = "fail")
     EXCEPT !.pc = "idle"]

(***************************************************************************)
(* State: the calls, the function-local statics of triangulationGraph (one *)
(* pair per template instantiation) and the build configuration.           *)
(***************************************************************************)
VARIABLES call, statics, build

vars == <<call, statics, build>>

\* a call without refinement never reaches the optimizer: lm is immaterial
LMFor(in) == IF in.optimize THEN LMSet ELSE {CHOOSE l \in LMSet : l.kind = "fail"}

Init ==
    /\ build \in Builds
    /\ statics = [o \in Overloads |-> FreshStatics]
    /\ \E in \in Args : \E lm \in LMFor(in) :
           call = [c \in Calls |-> IF c = 1 THEN InitCall(in, lm) ELSE IdleCall]

Local(c, op) ==
    /\ call' = [call EXCEPT ![c] = op]
    /\ UNCHANGED <<statics, build>>

StepAssert(c) ==
    /\ call[c].pc = "assert"
    /\ Local(c, AssertSizes(call[c], build))

StepSize(c) ==
    /\ call[c].pc = "size"
    /\ Local(c, SizeCheck(call[c]))

StepBuild(c) ==
    /\ call[c].pc = "build"
    /\ Local(c, BuildProjections(call[c]))

StepDLT(c) ==
    /\ call[c].pc = "dlt"
    /\ Local(c, TriangulateLinearly(call[c]))

StepGraphValues(c) ==
    /\ call[c].pc = "tg_values"
    /\ Local(c, GraphValues(call[c]))

StepUnit2(c) ==
    /\ call[c].pc = "tg_unit2"
    /\ \E x \in StaticDecl(call[c], statics[call[c].in.overload].unit2, "tg_prior") :
          /\ call' = [call EXCEPT ![c] = x[1]]
          /\ statics' = [statics EXCEPT ![call[c].in.overload].unit2 = x[2]]
    /\ UNCHANGED build

StepUnit2Init(c) ==
    /\ call[c].pc = "tg_unit2_init"
    /\ call' = [call EXCEPT ![c] = StaticDone(call[c], "tg_prior")[1]]
    /\ statics' = [statics EXCEPT ![call[c].in.overload].unit2 =
                                      StaticDone(call[c], "tg_prior")[2]]
    /\ UNCHANGED build

StepPrior(c) ==
    /\ call[c].pc = "tg_prior"
    /\ \E x \in StaticDecl(call[c], statics[call[c].in.overload].prior_model, "tg_loop") :
          /\ call' = [call EXCEPT ![c] = x[1]]
          /\ statics' = [statics EXCEPT ![call[c].in.overload].prior_model = x[2]]
    /\ UNCHANGED build

StepPriorInit(c) ==
    /\ call[c].pc = "tg_prior_init"
    /\ call' = [call EXCEPT ![c] = StaticDone(call[c], "tg_loop")[1]]
    /\ statics' = [statics EXCEPT ![call[c].in.overload].prior_model =
                                      StaticDone(call[c], "tg_loop")[2]]
    /\ UNCHANGED build

StepGraphLoop(c) ==
    /\ call[c].pc = "tg_loop"
    /\ \E t \in GraphLoop(call[c], statics[call[c].in.overload].unit2) :
          call' = [call EXCEPT ![c] = t]
    /\ UNCHANGED <<statics, build>>

StepOptimize(c) ==
    /\ call[c].pc = "optimize"
    /\ Local(c, Refine(call[c]))

StepCheirality(c) ==
    /\ call[c].pc = "cheirality"
    /\ Local(c, CheiralityCheck(call[c], build))

Next ==
    \E c \in Calls :
        \/ StepAssert(c)
        \/ StepSize(c)
        \/ StepBuild(c)
        \/ StepDLT(c)
        \/ StepGraphValues(c)
        \/ StepUnit2(c)
        \/ StepUnit2Init(c)
        \/ StepPrior(c)
        \/ StepPriorInit(c)
        \/ StepGraphLoop(c)
        \/ StepOptimize(c)
        \/ StepCheirality(c)

Spec == Init /\ [][Next]_vars

(***************************************************************************)
(* One call of triangulatePoint3 on well-formed arguments, taken through   *)
(* the same steps as in Spec: between any two of them, and inside the      *)
(* guarded initialisation of the statics, other threads may run.           *)
(***************************************************************************)
InitFn ==
    /\ build \in Builds
    /\ statics = [o \in Overloads |-> FreshStatics]
    /\ \E in \in WellFormedArgs : \E lm \in LMFor(in) :
           call = [c \in Calls |-> IF c = 1 THEN InitCall(in, lm) ELSE IdleCall]

SpecFn == InitFn /\ [][Next]_vars

(***************************************************************************)
(* Two calls in two threads, each on arguments of its own.                 *)
(***************************************************************************)
ConcArgs ==
    {in \in WellFormedArgs :
        /\ NumCameras(in) = 2
        /\ in.rank_tol = DefaultRankTol
        /\ in.measurements = << <<0, 0>>, <<-1, 0>> >>
        /\ \A k \in 1..2 : PoseAt(in, k).R = I3 /\ PoseAt(in, k).t[1] = k - 1
        /\ in.overload = "poses" => in.sharedCal = UnitCal}

InitConc ==
    /\ build \in Builds
    /\ statics = [o \in Overloads |-> FreshStatics]
    /\ \E in1 \in ConcArgs, in2 \in ConcArgs :
       \E lm1 \in LMFor(in1), lm2 \in LMFor(in2) :
           call = [c \in Calls |-> IF c = 1 THEN InitCall(in1, lm1)
                                            ELSE InitCall(in2, lm2)]

SpecConc == InitConc /\ [][Next]_vars

(***************************************************************************)
(* A call of any of the public functions: triangulatePoint3, or            *)
(* triangulateNonlinear or triangulationGraph called directly, which take  *)
(* sequences of any lengths, an initial estimate and (triangulationGraph)  *)
(* a landmark key from their caller and make no test of their own.         *)
(***************************************************************************)
KeySet == {Symbol("p", 0), Symbol("x", 7)}

EstimateSet == {Point3(0, 0, 1, 1), Point3(1, 0, 2, 1)}

\* the arguments of a direct call: at most one measurement more than there
\* are poses/cameras
DirectArgs ==
    {in \in [overload : {"poses"}, poses : SeqsUpTo(PoseSet, MaxCams),
             sharedCal : CalSet, cameras : {<<>>},
             measurements : SeqsUpTo(MeasSet, MaxCams + 1),
             rank_tol : {DefaultRankTol}, optimize : {TRUE}]
         \cup [overload : {"cameras"}, poses : {<<>>}, sharedCal : {UnitCal},
               cameras : SeqsUpTo(MixedCameras, MaxCams),
               measurements : SeqsUpTo(MeasSet, MaxCams + 1),
               rank_tol : {DefaultRankTol}, optimize : {TRUE}] :
        Len(in.measurements) <= NumCameras(in) + 1}

\* the call at the entry of triangulateNonlinear / triangulationGraph
DirectCall(entry, in, key, initialEstimate, lm) ==
    [InitCall(in, lm) EXCEPT !.pc = "tg_values", !.entry = entry, !.key = key,
                             !.point = initialEstimate]

\* the first call is one of the three public functions, the second thread is
\* idle; a direct call has no cheirality check: the flag is immaterial to it
InitPublic ==
    /\ build \in Builds
    /\ statics = [o \in Overloads |-> FreshStatics]
    /\ \/ \E in \in ConcArgs, lm \in LMSet :
             call = [c \in Calls |-> IF c = 1 THEN InitCall(in, lm) ELSE IdleCall]
       \/ /\ build.cheirality
          /\ \E in \in DirectArgs, e \in EstimateSet :
                \/ \E lm \in LMSet :
                      call = [c \in Calls |->
                                IF c = 1
                                THEN DirectCall("triangulateNonlinear", in, NoKey, e, lm)
                                ELSE IdleCall]
                \/ \E k \in KeySet :
                      call = [c \in Calls |->
                                IF c = 1
                                THEN DirectCall("triangulationGraph", in, k, e,
                                                CHOOSE l \in LMSet : l.kind = "fail")
                                ELSE IdleCall]

SpecPublic == InitPublic /\ [][Next]_vars

(***************************************************************************)
(* Properties                                                              *)
(***************************************************************************)
Done(c) == call[c].pc = "done"

Has(trace, x) == \E k \in 1..Len(trace) : trace[k] = x

Count(trace, x) == Cardinality({k \in 1..Len(trace) : trace[k] = x})

IsPrefix(a, b) == Len(a) <= Len(b) /\ SubSeq(b, 1, Len(a)) = a

LandmarkKey == Symbol("p", 0)

\* the calibration of the k-th camera of a call
CalAt(in, k) == IF in.overload = "poses" THEN in.sharedCal ELSE in.cameras[k].cal

\* the depth of the call's current point is not positive in some camera
DepthNotPositive(s) ==
    \E k \in 1..NumCameras(s.in) :
        ZSign(transform_to(PoseAt(s.in, k), s.point)) <= 0

\* the call got past the DLT and, if it refines, past the optimizer
NoEarlierFailure(s) ==
    /\ s.dltPoint # NoPoint
    /\ s.in.optimize => (s.lm.kind = "ok" /\ s.outcome.kind # "Segfault")

\* C1: a call with fewer than two cameras (m = 0 or m = 1) reports
\* Underconstrained, and it does so before any projection matrix is built
\* and before the DLT or the refiner is invoked.
C1_FewCamerasUnderconstrained ==
    \A c \in Calls :
        (Done(c) /\ NumCameras(call[c].in) < 2)
            => /\ call[c].outcome.kind = "Underconstrained"
               /\ call[c].Ps = <<>>
               /\ call[c].trace = <<"size">>

\* C2: a call whose numbers of cameras and of measurements differ reports
\* Underconstrained.
C2_SizeMismatchUnderconstrained ==
    \A c \in Calls :
        (Done(c) /\ NumCameras(call[c].in) # Len(call[c].in.measurements))
            => call[c].outcome.kind = "Underconstrained"

\* C3: when no earlier step failed, the call reports Cheirality exactly when
\* enforcement is compiled in and the final point has depth <= 0 in at least
\* one camera; otherwise it returns the final point.  Without enforcement it
\* never reports Cheirality.
C3_CheiralityIff ==
    \A c \in Calls :
        (Done(c) /\ NoEarlierFailure(call[c]))
            => /\ (call[c].outcome.kind = "Cheirality")
                      <=> (build.cheirality /\ DepthNotPositive(call[c]))
               /\ call[c].outcome.kind # "Cheirality"
                      => call[c].outcome = [kind |-> "Point", point |-> call[c].point]

\* C3 happens: enforcement on, one camera sees the final point in front of it
\* and another one does not, and the call reported Cheirality
C3_Witness ==
    \E c \in Calls :
        /\ Done(c) /\ build.cheirality /\ NoEarlierFailure(call[c])
        /\ call[c].outcome.kind = "Cheirality"
        /\ \E j, k \in 1..NumCameras(call[c].in) :
              /\ ZSign(transform_to(PoseAt(call[c].in, j), call[c].point)) > 0
              /\ ZSign(transform_to(PoseAt(call[c].in, k), call[c].point)) < 0

\* C4: a failure ends the call and reaches the caller as it is: after the DLT
\* reports Underconstrained (it ran on a measurement per camera and gave no
\* point) the refiner and the cheirality check do not run and no point is
\* returned; a failure of the optimizer is the outcome of the
\* call, with no fall-back to the DLT point; and no step runs twice.
C4_FailuresPropagate ==
    \A c \in Calls :
        Done(c) =>
            LET s == call[c]
            IN  /\ (Has(s.trace, "dlt") /\ s.dltPoint = NoPoint
                        /\ Len(s.in.measurements) >= NumCameras(s.in))
                      => /\ s.outcome = [kind |-> "Underconstrained", point |-> NoPoint]
                         /\ s.trace[Len(s.trace)] = "dlt"
                         /\ ~Has(s.trace, "refine") /\ ~Has(s.trace, "optimize")
                         /\ ~Has(s.trace, "cheirality") /\ ~Has(s.trace, "return")
                /\ (s.in.optimize /\ s.lm.kind = "fail" /\ s.dltPoint # NoPoint
                        /\ s.outcome.kind # "Segfault")
                      => /\ s.outcome = [kind |-> "OptimizerFailure", point |-> NoPoint]
                         /\ s.trace[Len(s.trace)] = "optimize"
                /\ \A x \in {"size", "dlt", "refine", "optimize", "cheirality", "return"} :
                      Count(s.trace, x) <= 1
                /\ Count(s.trace, "P") <= NumCameras(s.in)

\* C4 happens: the DLT gave a point, the optimizer failed, and the call ended
\* with the optimizer's failure
C4_Witness ==
    \E c \in Calls :
        /\ Done(c) /\ call[c].in.optimize /\ call[c].lm.kind = "fail"
        /\ call[c].dltPoint # NoPoint
        /\ call[c].outcome.kind = "OptimizerFailure"

\* the tolerances the rank test is compared at
TolsCompared == RankTols \cup {RankTol(2), RankTol(3)}

\* C5: with sigma_0 >= ... >= sigma_3 the singular values of the stacked DLT
\* system, the call reports Underconstrained whenever sigma_2 < rank_tol and
\* gets a point from the DLT only when sigma_2 >= rank_tol (fewer than three
\* singular values >= rank_tol means sigma_2 < rank_tol); and an input that
\* is Underconstrained at one rank_tol is so at every larger one.
C5_RankTest ==
    \A c \in Calls :
        (Done(c) /\ NumCameras(call[c].in) >= 2)
            => LET s == call[c]
                   G == Gram(StackA(ProjectionMatrices(s.in), s.in.measurements))
                   n == NumSingularAtLeast(G, s.in.rank_tol)
               IN  /\ n < 3 => s.outcome = [kind |-> "Underconstrained", point |-> NoPoint]
                   /\ s.dltPoint # NoPoint => n >= 3
                   /\ s.outcome.kind = "Underconstrained"
                        => \A tol \in TolsCompared :
                              TolLeq(s.in.rank_tol, tol)
                                => triangulatePoint3([s.in EXCEPT !.rank_tol = tol],
                                                     s.lm, build)
                                     = {[kind |-> "Underconstrained", point |-> NoPoint]}

\* C5 happens: a system of rank 3 at the default tolerance whose sigma_2 is
\* below the caller's rank_tol, reported Underconstrained
C5_Witness ==
    \E c \in Calls :
        /\ Done(c) /\ NumCameras(call[c].in) >= 2
        /\ call[c].in.rank_tol # DefaultRankTol
        /\ call[c].outcome.kind = "Underconstrained"
        /\ LET G == Gram(StackA(ProjectionMatrices(call[c].in), call[c].in.measurements))
           IN  /\ NumSingularAtLeast(G, DefaultRankTol) >= 3
               /\ NumSingularAtLeast(G, call[c].in.rank_tol) < 3

\* the steps of a call that returns a point, in order
StepOrder(in, b) ==
    <<"size">> \o [k \in 1..NumCameras(in) |-> "P"] \o <<"dlt">>
      \o (IF in.optimize THEN <<"refine", "optimize">> ELSE <<>>)
      \o (IF b.cheirality THEN <<"cheirality">> ELSE <<>>)
      \o <<"return">>

\* the point the call holds after the optional refinement
FinalPoint(s) ==
    IF s.in.optimize THEN Translate(s.dltPoint, s.lm.delta) ELSE s.dltPoint

\* C6: the steps run in the order size check, one projection matrix per
\* camera, DLT, optional refinement, cheirality check, return; the check is
\* made on exactly the point that is returned (the refined one when refine
\* is true, the DLT point otherwise); with refine false the optimizer is
\* never invoked and the point returned is the DLT point.
C6_StepOrder ==
    \A c \in Calls :
        LET s == call[c]
        IN  /\ IsPrefix(s.trace, StepOrder(s.in, build))
            /\ (Done(c) /\ s.outcome.kind = "Point")
                  => /\ s.trace = StepOrder(s.in, build)
                     /\ s.outcome.point = FinalPoint(s)
                     /\ build.cheirality => s.checked = s.outcome.point
            /\ (Done(c) /\ s.outcome.kind = "Cheirality")
                  => s.checked = FinalPoint(s)
            /\ (Done(c) /\ ~s.in.optimize)
                  => /\ ~Has(s.trace, "refine") /\ ~Has(s.trace, "optimize")
                     /\ s.graph = <<>>
                     /\ s.outcome.kind = "Point" => s.outcome.point = s.dltPoint

\* C6 happens: a refined point that differs from the DLT point was checked
\* and returned
C6_Witness ==
    \E c \in Calls :
        /\ Done(c) /\ call[c].in.optimize /\ build.cheirality
        /\ call[c].outcome.kind = "Point"
        /\ call[c].outcome.point # call[c].dltPoint
        /\ call[c].trace = StepOrder(call[c].in, build)

\* C7: of two calls running concurrently on arguments of their own, each
\* ends with the outcome it has when run alone, also when both make the
\* first use of the function-local statics of triangulationGraph together.
C7_ConcurrentAsAlone ==
    \A c \in Calls :
        Done(c) => call[c].outcome
                      \in triangulatePoint3(call[c].in, call[c].lm, build)

\* C7 happens: both calls were in the same triangulationGraph at the time of
\* its first use, each of them constructed one of its two statics and read
\* the one the other constructed, and both are done
C7_Witness ==
    /\ \A c \in Calls : Done(c) /\ call[c].in.optimize /\ Len(call[c].graph) = 2
    /\ call[1].in.overload = call[2].in.overload
    /\ call[1].constructed = {"tg_unit2"}
    /\ call[2].constructed = {"tg_prior"}

\* the permutations of 1..n
Perms(n) == {f \in [1..n -> 1..n] : \A i, j \in 1..n : f[i] = f[j] => i = j}

\* the arguments with cameras and measurements reordered together by f
Permute(in, f) ==
    [in EXCEPT !.poses = [k \in 1..Len(in.poses) |-> in.poses[f[k]]],
               !.cameras = [k \in 1..Len(in.cameras) |-> in.cameras[f[k]]],
               !.measurements = [k \in 1..Len(in.measurements) |->
                                    in.measurements[f[k]]]]

\* C8: a call on the pairs (camera_i, z_i) reordered by any permutation has
\* the same outcome: the same kind and, on success, the same point.
C8_PermutationInvariant ==
    \A c \in Calls :
        Done(c) => \A f \in Perms(NumCameras(call[c].in)) :
                      triangulatePoint3(Permute(call[c].in, f), call[c].lm, build)
                          = {call[c].outcome}

\* C8 happens: two different cameras of which only the second one has the
\* point behind it, so that the order decides which camera fails the check
C8_Witness ==
    \E c \in Calls :
        /\ Done(c) /\ NumCameras(call[c].in) = 2
        /\ call[c].outcome.kind = "Cheirality"
        /\ ZSign(transform_to(PoseAt(call[c].in, 1), call[c].point)) > 0
        /\ ZSign(transform_to(PoseAt(call[c].in, 2), call[c].point)) < 0

\* the arguments of the per-camera overload with cameras_i = (poses_i, cal)
AsCameras(in) ==
    [in EXCEPT !.overload = "cameras",
               !.cameras = [k \in 1..Len(in.poses) |->
                               PinholeCamera(in.poses[k], in.sharedCal)],
               !.poses = <<>>]

\* C9: a call of the shared-calibration overload, and the call of the
\* per-camera overload on cameras_i = (poses_i, the same calibration) with
\* the same measurements and options, run the same steps and have the same
\* outcome.
C9_OverloadsAgree ==
    \A c \in Calls :
        (Done(c) /\ call[c].in.overload = "poses")
            => {<<x[1].outcome, x[1].trace>> :
                    x \in RunAlone(InitCall(AsCameras(call[c].in), call[c].lm),
                                   FreshStatics, build)}
                  = {<<call[c].outcome, call[c].trace>>}

\* C9 happens: a call of the shared-calibration overload with a calibration
\* other than the identity returned a refined point
C9_Witness ==
    \E c \in Calls :
        /\ Done(c) /\ call[c].in.overload = "poses"
        /\ call[c].in.sharedCal # UnitCal
        /\ call[c].in.optimize /\ call[c].outcome.kind = "Point"

\* the call holds the graph and values that triangulationGraph returns
GraphBuilt(s) ==
    \/ s.pc = "optimize"
    \/ s.pc = "done" /\ s.outcome.kind = "Graph"

\* C10: for m measurements triangulationGraph yields exactly m factors, the
\* i-th one a TriangulationFactor pairing camera i with measurement i under
\* the unit 2-d noise model and on the one landmark key (the caller's, or
\* Symbol('p', 0) from triangulateNonlinear); the values hold exactly one
\* entry, the supplied initial estimate under that key (the DLT point when
\* called from triangulatePoint3); there is no prior factor; and the value
\* the refinement returns is the one under that key.
C10_GraphShape ==
    \A c \in Calls :
        LET s == call[c]
        IN  /\ GraphBuilt(s)
               => /\ Len(s.graph) = Len(s.in.measurements)
                  /\ \A k \in 1..Len(s.graph) :
                        /\ s.graph[k].type = "TriangulationFactor"
                        /\ s.graph[k].measured = s.in.measurements[k]
                        /\ s.graph[k].noise = "Unit(2)"
                        /\ s.graph[k].key = s.key
                        /\ k <= NumCameras(s.in)
                             => s.graph[k].camera
                                  = PinholeCamera(PoseAt(s.in, k), CalAt(s.in, k))
                  /\ DOMAIN s.values = {s.key}
                  /\ s.values[s.key] = s.point
                  /\ s.entry # "triangulationGraph" => s.key = LandmarkKey
                  /\ s.entry = "triangulatePoint3" => s.point = s.dltPoint
            /\ (Done(c) /\ Has(s.trace, "optimize")
                    /\ s.outcome.kind \in {"Point", "Cheirality"})
               => /\ s.point = IF s.graph = <<>> THEN s.values[LandmarkKey]
                              ELSE Translate(s.values[LandmarkKey], s.lm.delta)
                  /\ s.entry = "triangulateNonlinear" => s.outcome.point = s.point

\* C10 happens: triangulationGraph, called with a key of the caller's own,
\* returned the graph of two different cameras and measurements
C10_Witness ==
    \E c \in Calls :
        /\ Done(c) /\ call[c].outcome.kind = "Graph"
        /\ call[c].key # LandmarkKey
        /\ NumCameras(call[c].in) = 2 /\ Len(call[c].graph) = 2
        /\ call[c].graph[1].camera # call[c].graph[2].camera
        /\ call[c].graph[1].measured # call[c].graph[2].measured

(***************************************************************************)
(* One call on two cameras whose rotations are not symmetric and whose     *)
(* centres lie off the plane z = 0, so that a pose and its inverse differ  *)
(* in the depth they give.                                                 *)
(***************************************************************************)
\* rotations by +90 and -90 degrees about Y and by +90 degrees about X
RotY90 == << <<0, 0, 1>>, <<0, 1, 0>>, <<-1, 0, 0>> >>

RotYm90 == << <<0, 0, -1>>, <<0, 1, 0>>, <<1, 0, 0>> >>

RotX90 == << <<1, 0, 0>>, <<0, 0, -1>>, <<0, 1, 0>> >>

ExtPoseSet == { [R |-> I3, t |-> <<0, 0, 0>>],
                [R |-> RotY90, t |-> <<-1, 0, 1>>],
                [R |-> RotYm90, t |-> <<1, 0, 1>>],
                [R |-> RotX90, t |-> <<0, 1, 1>>] }

ExtLMSet ==
    { [kind |-> "fail", delta |-> <<0, 0, 0>>] }
      \cup { [kind |-> "ok", delta |-> d] :
               d \in { <<0, 0, 0>>, <<1, 0, 0>>, <<-1, 0, 0>>, <<0, 1, 0>>,
                       <<0, -1, 0>>, <<0, 0, 1>>, <<0, 0, -1>> } }

ExtArgs ==
    {in \in [overload : {"poses"}, poses : [1..2 -> ExtPoseSet], sharedCal : CalSet,
             cameras : {<<>>}, measurements : [1..2 -> MeasSet],
             rank_tol : {DefaultRankTol}, optimize : BOOLEAN] :
        Consistent(ProjectionMatrices(in), in.measurements)}

InitExt ==
    /\ build \in Builds
    /\ statics = [o \in Overloads |-> FreshStatics]
    /\ \E in \in ExtArgs :
       \E lm \in (IF in.optimize THEN ExtLMSet
                  ELSE {l \in ExtLMSet : l.kind = "fail"}) :
           call = [c \in Calls |-> IF c = 1 THEN InitCall(in, lm) ELSE IdleCall]

SpecExt == InitExt /\ [][Next]_vars

\* (4 x 4) * (4 x 4)
MatMul44(A, B) ==
    [i \in 1..4 |-> [j \in 1..4 |->
        A[i][1] * B[1][j] + A[i][2] * B[2][j] + A[i][3] * B[3][j] + A[i][4] * B[4][j]]]

Identity4 == [i \in 1..4 |-> [j \in 1..4 |-> IF i = j THEN 1 ELSE 0]]

\* the first three rows of the inverse of the pose's 4 x 4 matrix
WorldToCamera(pose) == Block34(PoseMatrix(PoseInverse(pose)))

\* the homogeneous coordinates (p, 1) of the rational point p, scaled by p.d
Homogeneous(p) == <<p.n[1], p.n[2], p.n[3], p.d>>

\* C11: the projection matrix of every camera is K * (first three rows of
\* the inverse of the pose's 4 x 4 matrix), the depth the cheirality check
\* tests, the z of pose.transform_to(p), is the third component of those
\* three rows applied to (p, 1), and so, K having (0, 0, 1) as its last row,
\* the third component of P * (p, 1) is strictly positive exactly when the
\* check accepts the camera; a call that reaches the check returns the point
\* exactly when that component is positive for every camera.
C11_OneExtrinsicConvention ==
    \A c \in Calls :
        LET s  == call[c]
            ph == Homogeneous(s.point)
        IN  /\ \A k \in 1..Len(s.Ps) :
                LET pose == PoseAt(s.in, k)
                    E    == WorldToCamera(pose)
                    q    == transform_to(pose, s.point)
                IN  /\ MatMul44(PoseMatrix(PoseInverse(pose)), PoseMatrix(pose)) = Identity4
                    /\ MatMul44(PoseMatrix(pose), PoseMatrix(PoseInverse(pose))) = Identity4
                    /\ K(CalAt(s.in, k))[3] = <<0, 0, 1>>
                    /\ s.Ps[k] = MatMul34(K(CalAt(s.in, k)), E)
                    /\ s.point # NoPoint
                         => /\ q.n[3] * s.point.d = Dot4(E[3], ph) * q.d
                            /\ (Dot4(s.Ps[k][3], ph) > 0) <=> (ZSign(q) > 0)
            /\ (Done(c) /\ build.cheirality /\ NoEarlierFailure(s))
                  => ((s.outcome.kind = "Point")
                        <=> \A k \in 1..Len(s.Ps) : Dot4(s.Ps[k][3], ph) > 0)

\* C11 happens: the check ran on a point for which the pose's own matrix and
\* its inverse give depths of different sign in some camera, while another
\* camera has the point in front of it
C11_Witness ==
    \E c \in Calls :
        /\ Done(c) /\ build.cheirality /\ NoEarlierFailure(call[c])
        /\ call[c].outcome.kind = "Cheirality"
        /\ \E j, k \in 1..Len(call[c].Ps) :
              LET ph == Homogeneous(call[c].point)
              IN  /\ Dot4(call[c].Ps[j][3], ph) > 0
                  /\ Dot4(call[c].Ps[k][3], ph) < 0
                  /\ Dot4(Block34(PoseMatrix(PoseAt(call[c].in, k)))[3], ph) > 0
                  /\ PoseAt(call[c].in, k).R # Transpose3(PoseAt(call[c].in, k).R)

\* C12: in triangulationGraph and triangulateNonlinear, whatever the lengths
\* of the pose/camera sequence and of the measurement sequence, every index
\* i at which poses[i] or cameras[i] is read is below the number of
\* poses/cameras: the loop is never about to run past them, nothing past
\* the end has been read, and no factor was built from such a read.
C12_NoReadPastEnd ==
    \A c \in Calls :
        /\ call[c].pc = "tg_loop"
              => Len(call[c].in.measurements) <= NumCameras(call[c].in)
        /\ ~call[c].oob
        /\ Len(call[c].graph) <= NumCameras(call[c].in)

=============================================================================
